---- MODULE Spec2Model ----
(***************************************************************************)
(* Markov-State-Model notebooks: the trajectory reshaping utilities        *)
(* (unflatten, sort_lengths) of msm-classic.ipynb and the cells that use   *)
(* them, the train/test splitting of msm-vampe-training.ipynb              *)
(* (DataGenerator) and the K-fold cross validation of msm-classic.ipynb.   *)
(***************************************************************************)
EXTENDS Integers, Sequences, FiniteSets, TLC

(***************************************************************************)
(* Bounds of the model.                                                    *)
(***************************************************************************)
\* Largest number of rows (frames) of the flat feature matrix.
MaxRows == 4
\* Largest number of entries of inpcon.trajectory_lengths().
MaxTraj == 3
\* Largest single value of a length or of a group size (the smallest is -1).
MaxLen == 2
\* Largest number of groups in traj_rounds.
MaxGroups == 2

\* Largest number of trajectories handed to the splitter.
MaxSplitTraj == 4
\* Largest number of frames of one trajectory handed to the splitter.
MaxFrames == 3
\* Largest lag time in frames (0, not a valid lag, is included).
MaxLag == 2
\* Ratios are the fractions 0/RatioDen .. RatioDen/RatioDen.
RatioDen == 4
\* The frame cap max_frames, when one is set.
MaxCap == 2
\* Explicit seeds are 0..MaxSeed.
MaxSeed == 0
\* Number of states of the pseudo-random generator.
RngModulus == 4
\* Largest number of trajectories handed to the cross validation.
MaxCvTraj == 6

None == "None"

(***************************************************************************)
(* Helpers on sequences.                                                   *)
(***************************************************************************)
RECURSIVE SumSeq(_)
SumSeq(s) == IF s = <<>> THEN 0 ELSE Head(s) + SumSeq(Tail(s))

\* All sequences over S of length 0..n.
SeqsUpTo(S, n) == UNION {[1..k -> S] : k \in 0..n}

\* itertools.chain(*conv): the groups' members in one list, in order.
RECURSIVE Chain(_)
Chain(conv) == IF conv = <<>> THEN <<>> ELSE Head(conv) \o Chain(Tail(conv))

(***************************************************************************)
(* Python / numpy basic slicing  s[start:stop]  of a sequence of rows:     *)
(* a negative index counts from the end, every index is clamped to         *)
(* 0..len(s), and an empty range gives an empty array; slicing never       *)
(* raises.  Python indices are 0-based, TLA+ sequences 1-based.            *)
(***************************************************************************)
SliceIndex(i, n) ==
    IF i < 0 THEN (IF i + n < 0 THEN 0 ELSE i + n)
    ELSE (IF i > n THEN n ELSE i)

PySlice(s, start, stop) ==
    LET lo == SliceIndex(start, Len(s))
        hi == SliceIndex(stop, Len(s))
    IN  IF hi <= lo THEN <<>> ELSE SubSeq(s, lo + 1, hi)

(***************************************************************************)
(* unflatten(source, lengths)                                              *)
(***************************************************************************)
\* The inner loop  for le in arr: arrconv.append(source[lp:le + lp]); lp += le
RECURSIVE unflattenInner(_, _, _, _)
unflattenInner(source, arr, lp, arrconv) ==
    IF arr = <<>> THEN [arrconv |-> arrconv, lp |-> lp]
    ELSE LET le == Head(arr)
         IN  unflattenInner(source, Tail(arr), lp + le,
                            Append(arrconv, PySlice(source, lp, le + lp)))

\* The outer loop  for arr in lengths: ...; conv.append(arrconv)
RECURSIVE unflattenOuter(_, _, _, _)
unflattenOuter(source, lengths, lp, conv) ==
    IF lengths = <<>> THEN conv
    ELSE LET r == unflattenInner(source, Head(lengths), lp, <<>>)
         IN  unflattenOuter(source, Tail(lengths), r.lp, Append(conv, r.arrconv))

\* A slip in the slice: source[lp:le] instead of source[lp:le + lp].
RECURSIVE unflattenInnerNoOffset(_, _, _, _)
unflattenInnerNoOffset(source, arr, lp, arrconv) ==
    IF arr = <<>> THEN [arrconv |-> arrconv, lp |-> lp]
    ELSE LET le == Head(arr)
         IN  unflattenInnerNoOffset(source, Tail(arr), lp + le,
                                    Append(arrconv, PySlice(source, lp, le)))

RECURSIVE unflattenOuterNoOffset(_, _, _, _)
unflattenOuterNoOffset(source, lengths, lp, conv) ==
    IF lengths = <<>> THEN conv
    ELSE LET r == unflattenInnerNoOffset(source, Head(lengths), lp, <<>>)
         IN  unflattenOuterNoOffset(source, Tail(lengths), r.lp,
                                    Append(conv, r.arrconv))

unflattenNoOffset(source, lengths) ==
    Chain(unflattenOuterNoOffset(source, lengths, 0, <<>>))

\* A slip in the offset: lp is reset for every group.
RECURSIVE unflattenOuterResetLp(_, _, _, _)
unflattenOuterResetLp(source, lengths, lp, conv) ==
    IF lengths = <<>> THEN conv
    ELSE LET r == unflattenInner(source, Head(lengths), 0, <<>>)
         IN  unflattenOuterResetLp(source, Tail(lengths), r.lp,
                                   Append(conv, r.arrconv))

unflattenResetLp(source, lengths) ==
    Chain(unflattenOuterResetLp(source, lengths, 0, <<>>))

\* A slip in the result: only the last group is returned.
unflattenLastGroup(source, lengths) ==
    LET conv == unflattenOuter(source, lengths, 0, <<>>)
    IN  IF conv = <<>> THEN <<>> ELSE conv[Len(conv)]

unflatten(source, lengths) ==
    Chain(unflattenOuter(source, lengths, 0, <<>>))

(***************************************************************************)
(* sort_lengths(flatlengths, shapes).  The result is a record: ok with the *)
(* nested list, or the exception raised.  flatlengths[i] raises IndexError *)
(* when i >= len(flatlengths) (i is never negative); range(n) is empty for *)
(* n <= 0.                                                                 *)
(***************************************************************************)
\* The inner loop  for _ in range(n): arr.append(flatlengths[i]); i += 1
RECURSIVE sortInner(_, _, _, _)
sortInner(flatlengths, n, i, arr) ==
    IF n <= 0 THEN [raised |-> None, arr |-> arr, i |-> i]
    ELSE IF i >= Len(flatlengths)
         THEN [raised |-> "IndexError", arr |-> arr, i |-> i]
         ELSE sortInner(flatlengths, n - 1, i + 1, Append(arr, flatlengths[i + 1]))

\* The outer loop  for n in shapes: ...; lengths.append(arr)
RECURSIVE sortOuter(_, _, _, _)
sortOuter(flatlengths, shapes, i, lengths) ==
    IF shapes = <<>> THEN [raised |-> None, value |-> lengths]
    ELSE LET r == sortInner(flatlengths, Head(shapes), i, <<>>)
         IN  IF r.raised # None THEN [raised |-> r.raised, value |-> None]
             ELSE sortOuter(flatlengths, Tail(shapes), r.i, Append(lengths, r.arr))

\* A slip in the index: i is reset for every group.
RECURSIVE sortOuterResetI(_, _, _, _)
sortOuterResetI(flatlengths, shapes, i, lengths) ==
    IF shapes = <<>> THEN [raised |-> None, value |-> lengths]
    ELSE LET r == sortInner(flatlengths, Head(shapes), 0, <<>>)
         IN  IF r.raised # None THEN [raised |-> r.raised, value |-> None]
             ELSE sortOuterResetI(flatlengths, Tail(shapes), r.i,
                                  Append(lengths, r.arr))

\* A slip in the meaning of "sort": every group's values put in ascending order.
RECURSIVE InsertSorted(_, _)
InsertSorted(x, s) ==
    IF s = <<>> THEN <<x>>
    ELSE IF x <= Head(s) THEN <<x>> \o s
         ELSE <<Head(s)>> \o InsertSorted(x, Tail(s))

RECURSIVE Ascending(_)
Ascending(s) == IF s = <<>> THEN <<>> ELSE InsertSorted(Head(s), Ascending(Tail(s)))

RECURSIVE AscendingGroups(_)
AscendingGroups(groups) ==
    IF groups = <<>> THEN <<>>
    ELSE <<Ascending(Head(groups))>> \o AscendingGroups(Tail(groups))

sort_lengthsAscending(flatlengths, shapes) ==
    LET r == sortOuter(flatlengths, shapes, 0, <<>>)
    IN  IF r.raised # None THEN r
        ELSE [raised |-> None, value |-> AscendingGroups(r.value)]

sort_lengthsResetI(flatlengths, shapes) ==
    sortOuterResetI(flatlengths, shapes, 0, <<>>)

sort_lengths(flatlengths, shapes) == sortOuter(flatlengths, shapes, 0, <<>>)

(***************************************************************************)
(* Pseudo-random numbers.  A generator is its state; a draw advances the   *)
(* state and returns it (a linear congruential generator stands for the    *)
(* Mersenne twister of numpy).  A seeded generator starts from its seed;   *)
(* the global generator (np.random) starts from a state nobody chose.      *)
(***************************************************************************)
RngStates == 0..(RngModulus - 1)
Rand(rng) == (5 * rng + 3) % RngModulus
Seeded(seed) == seed % RngModulus

Swap(a, i, j) ==
    [k \in 1..Len(a) |-> IF k = i THEN a[j] ELSE IF k = j THEN a[i] ELSE a[k]]

\* Fisher-Yates shuffle: for i = n-1 down to 1, swap a[i] with a[j], j drawn
\* from 0..i (0-based).  Returns the permutation and the generator after it.
RECURSIVE ShuffleLoop(_, _, _)
ShuffleLoop(a, i, rng) ==
    IF i < 1 THEN [perm |-> a, rng |-> rng]
    ELSE LET r == Rand(rng)
         IN  ShuffleLoop(Swap(a, i + 1, (r % (i + 1)) + 1), i - 1, r)

Shuffle(rng, n) == ShuffleLoop([k \in 1..n |-> k], n - 1, rng)

(***************************************************************************)
(* TrainTestSplitter: construct(trajectories, config).  A trajectory is a  *)
(* sequence of frames (rows of the flat matrix); a LaggedPairSet is two    *)
(* parallel sequences of frames, instant and lagged.  A trajectory too     *)
(* short for the lag is, by the policy in force, either rejected (the call *)
(* fails) or excluded: it yields no pair and is reported.                  *)
(***************************************************************************)
EmptyPairs == [instant |-> <<>>, lagged |-> <<>>]

EmptyDataset ==
    [train |-> EmptyPairs, test |-> EmptyPairs,
     trainIdx |-> <<>>, testIdx |-> <<>>,
     trainTrajectoryCount |-> 0, testTrajectoryCount |-> 0,
     totalFrameCount |-> 0, flatConcatenation |-> <<>>,
     trainPairCount |-> 0, testPairCount |-> 0,
     excluded |-> {}]

\* 0 < ratio < 1, ratio given as num/den.
RatioValid(ratio) == 0 < ratio.num /\ ratio.num < ratio.den

\* The train count: ratio times the trajectory count, rounded up (a slip).
TrainCountRoundUp(ratio, n) == (ratio.num * n + ratio.den - 1) \div ratio.den

\* The train count: ratio times the trajectory count, rounded down.
TrainCount(ratio, n) == (ratio.num * n) \div ratio.den

\* Frame i paired with frame i + lag for i in [0, length - lag).
LaggedPairsOf(traj, lag) ==
    IF Len(traj) > lag
    THEN [instant |-> SubSeq(traj, 1, Len(traj) - lag),
          lagged |-> SubSeq(traj, lag + 1, Len(traj))]
    ELSE EmptyPairs

\* Pairs taken over the partition's frames as one sequence (a slip: pairs
\* then cross trajectory boundaries).
PartitionPairsFlat(trajectories, idx, lag) ==
    LaggedPairsOf(Chain([k \in 1..Len(idx) |-> trajectories[idx[k]]]), lag)

\* The pairs of the trajectories idx[1], idx[2], ... in that order.
RECURSIVE PartitionPairs(_, _, _)
PartitionPairs(trajectories, idx, lag) ==
    IF idx = <<>> THEN EmptyPairs
    ELSE LET h == LaggedPairsOf(trajectories[Head(idx)], lag)
             t == PartitionPairs(trajectories, Tail(idx), lag)
         IN  [instant |-> h.instant \o t.instant, lagged |-> h.lagged \o t.lagged]

\* Subsampling with replacement (a slip: every pick draws an index anew, so
\* a pair can be picked twice).
SubsampleWithReplacement(pairs, cap, rng) ==
    IF cap = <<>> \/ Len(pairs.instant) <= cap[1]
    THEN [pairs |-> pairs, rng |-> rng]
    ELSE LET n == Len(pairs.instant)
             pick == 1 + (Rand(rng) % n)
         IN  [pairs |->
                [instant |-> [k \in 1..cap[1] |-> pairs.instant[pick]],
                 lagged |-> [k \in 1..cap[1] |-> pairs.lagged[pick]]],
              rng |-> Rand(rng)]

\* Step 5: with a cap set (cap = <<maxFrames>>), more pairs than the cap are
\* subsampled without replacement to exactly that many; fewer are kept as
\* they are.
Subsample(pairs, cap, rng) ==
    IF cap = <<>> \/ Len(pairs.instant) <= cap[1]
    THEN [pairs |-> pairs, rng |-> rng]
    ELSE LET sh == Shuffle(rng, Len(pairs.instant))
         IN  [pairs |->
                [instant |-> [k \in 1..cap[1] |-> pairs.instant[sh.perm[k]]],
                 lagged |-> [k \in 1..cap[1] |-> pairs.lagged[sh.perm[k]]]],
              rng |-> sh.rng]

TooShort(trajectories, lag) ==
    {i \in 1..Len(trajectories) : Len(trajectories[i]) <= lag}

construct(trajectories, config, policy, rng) ==
    LET n == Len(trajectories)
        lag == config.lagTimeFrames
    IN  IF ~RatioValid(config.ratio) \/ lag < 1
        THEN [raised |-> "InvalidConfigError", dataset |-> EmptyDataset, rng |-> rng]
        ELSE IF policy = "reject" /\ TooShort(trajectories, lag) # {}
        THEN [raised |-> "TrajectoryTooShortError", dataset |-> EmptyDataset,
              rng |-> rng]
        ELSE
        LET sh == Shuffle(rng, n)
            ntrain == TrainCount(config.ratio, n)
            trainIdx == SubSeq(sh.perm, 1, ntrain)
            testIdx == SubSeq(sh.perm, ntrain + 1, n)
            trainAll == PartitionPairs(trajectories, trainIdx, lag)
            testAll == PartitionPairs(trajectories, testIdx, lag)
            trainSub == Subsample(trainAll, config.maxFrames, sh.rng)
            testSub == Subsample(testAll, config.maxFrames, trainSub.rng)
        IN  [raised |-> None,
             dataset |->
                [train |-> trainSub.pairs, test |-> testSub.pairs,
                 trainIdx |-> trainIdx, testIdx |-> testIdx,
                 trainTrajectoryCount |-> Len(trainIdx),
                 testTrajectoryCount |-> Len(testIdx),
                 totalFrameCount |-> SumSeq([i \in 1..n |-> Len(trajectories[i])]),
                 flatConcatenation |-> Chain(trajectories),
                 trainPairCount |-> Len(trainAll.instant),
                 testPairCount |-> Len(testAll.instant),
                 excluded |-> TooShort(trajectories, lag)],
             rng |-> testSub.rng]

\* persist(dataset, destination): what is written is the trajectory-to-
\* partition assignment, not the feature values.
persist(dataset) == [trainIdx |-> dataset.trainIdx, testIdx |-> dataset.testIdx]

\* The dataset of an index assignment: the pairs are derived again from the
\* trajectories, and cut to the frame cap with the generator rng.
Rederive(trainIdx, testIdx, trajectories, config, rng) ==
    LET n == Len(trajectories)
        lag == config.lagTimeFrames
        trainAll == PartitionPairs(trajectories, trainIdx, lag)
        testAll == PartitionPairs(trajectories, testIdx, lag)
        trainSub == Subsample(trainAll, config.maxFrames, rng)
        testSub == Subsample(testAll, config.maxFrames, trainSub.rng)
    IN  [dataset |->
            [train |-> trainSub.pairs, test |-> testSub.pairs,
             trainIdx |-> trainIdx, testIdx |-> testIdx,
             trainTrajectoryCount |-> Len(trainIdx),
             testTrajectoryCount |-> Len(testIdx),
             totalFrameCount |-> SumSeq([i \in 1..n |-> Len(trajectories[i])]),
             flatConcatenation |-> Chain(trajectories),
             trainPairCount |-> Len(trainAll.instant),
             testPairCount |-> Len(testAll.instant),
             excluded |-> TooShort(trajectories, lag)],
         rng |-> testSub.rng]

\* load with the two sides exchanged (a slip).
loadSwapped(file, trajectories, config, rng) ==
    Rederive(file.testIdx, file.trainIdx, trajectories, config,
             IF config.randomSeed # <<>>
             THEN Shuffle(Seeded(config.randomSeed[1]), Len(trajectories)).rng
             ELSE rng)

\* load(source), given the same original trajectories: the assignment is
\* read back and the pairs derived again.  With a seed the generator is
\* seeded from it and stands where construct's stood after the permutation;
\* without one the pairs are cut with the generator rng handed in.
load(file, trajectories, config, rng) ==
    Rederive(file.trainIdx, file.testIdx, trajectories, config,
             IF config.randomSeed # <<>>
             THEN Shuffle(Seeded(config.randomSeed[1]), Len(trajectories)).rng
             ELSE rng)

(***************************************************************************)
(* sklearn's KFold(n_splits, shuffle=True).split(X) with no random_state:  *)
(* the indices are shuffled with the global generator and cut into         *)
(* n_splits folds, the first n % n_splits of them one longer; fold f's     *)
(* test indices are the f-th cut and its train indices all the others,     *)
(* both in ascending order.  Fewer samples than folds raise ValueError.    *)
(***************************************************************************)
n_splits == 5
n_clusters == <<10, 20, 50, 100, 200, 500, 1000, 2000>>

Minimum(S) == CHOOSE x \in S : \A y \in S : x <= y

RECURSIVE AscendingSeq(_)
AscendingSeq(S) ==
    IF S = {} THEN <<>>
    ELSE <<Minimum(S)>> \o AscendingSeq(S \ {Minimum(S)})

FoldSize(n, f) == (n \div n_splits) + (IF f <= n % n_splits THEN 1 ELSE 0)

RECURSIVE FoldStart(_, _)
FoldStart(n, f) == IF f = 1 THEN 0 ELSE FoldStart(n, f - 1) + FoldSize(n, f - 1)

KFoldSplit(n, rng) ==
    IF n_splits > n
    THEN [raised |-> "ValueError", folds |-> <<>>, rng |-> rng]
    ELSE LET sh == Shuffle(rng, n)
             testSet(f) == {sh.perm[k] : k \in (FoldStart(n, f) + 1)..
                                              (FoldStart(n, f) + FoldSize(n, f))}
         IN  [raised |-> None,
              folds |-> [f \in 1..n_splits |->
                            [train_inds |-> AscendingSeq((1..n) \ testSet(f)),
                             test_inds |-> AscendingSeq(testSet(f))]],
              rng |-> sh.rng]

\* A slip: the training list is the whole list, not the fold's selection.
SelectAll(fulltics, inds) == fulltics

\* [fulltics[i] for i in inds]
Select(fulltics, inds) == [k \in 1..Len(inds) |-> fulltics[inds[k]]]

(***************************************************************************)
(* The results store of the training notebook, an HDF5 file: groups are    *)
(* paths (sequences of names), a dataset is [group, name, shape, value]    *)
(* with value <<>> until something is assigned to it.                      *)
(***************************************************************************)
ClosedStore == [open |-> FALSE, groups |-> {}, datasets |-> {}]

\* h5py.File(name, "a"): the file is opened, created if it is not there.
OpenStore(store) == [store EXCEPT !.open = TRUE]

\* File.__exit__: the file is closed.
CloseStore(store) == [store EXCEPT !.open = FALSE]

\* require_group never creating the group (a slip).
require_groupNever(store, path) == store

\* parent.require_group(name): the group at path is created if missing.
require_group(store, path) == [store EXCEPT !.groups = @ \cup {path}]

DatasetsAt(store, group, name) ==
    {d \in store.datasets : d.group = group /\ d.name = name}

\* group.require_dataset(name, shape=shape): the dataset is created if
\* missing; one that exists with another shape raises TypeError.
require_dataset(store, group, name, shape) ==
    LET old == DatasetsAt(store, group, name)
    IN  IF old = {}
        THEN [raised |-> None,
              store |-> [store EXCEPT !.datasets = @ \cup
                           {[group |-> group, name |-> name, shape |-> shape,
                             value |-> <<>>]}]]
        ELSE IF \E d \in old : d.shape # shape
        THEN [raised |-> "TypeError", store |-> store]
        ELSE [raised |-> None, store |-> store]

\* numpy's broadcasting rule for arrays of equal rank.
Broadcastable(from, to) ==
    /\ Len(from) = Len(to)
    /\ \A i \in 1..Len(to) : from[i] = to[i] \/ from[i] = 1

\* The name bound to the value instead of the dataset being written (a
\* slip: dataset = value for dataset[:] = value).
assign_datasetRebind(store, group, name, value) ==
    [raised |-> None, store |-> store]

\* dataset[:] = value: the value is written if its shape can be broadcast
\* to the dataset's, and TypeError is raised if not.
assign_dataset(store, group, name, value) ==
    LET old == DatasetsAt(store, group, name)
    IN  IF \E d \in old : ~Broadcastable(value.shape, d.shape)
        THEN [raised |-> "TypeError", store |-> store]
        ELSE [raised |-> None,
              store |-> [store EXCEPT !.datasets =
                           (@ \ old) \cup
                           {[d EXCEPT !.value = <<value.from>>] : d \in old}]]

(***************************************************************************)
(* The feature cache of the notebooks: a .npy file holds an array's shape  *)
(* and its rows; a file that does not exist is <<>>, one that does <<f>>.  *)
(***************************************************************************)
\* np.save(filename, arr): the shape and the data are written.
np_save(arr) == [shape |-> <<Len(arr)>>, data |-> arr]

\* np.load(filename): the array of the file's shape is read back.
np_load(file) == SubSeq(file.data, 1, file.shape[1])

\* np.vstack(inp.get_output()): the featurizer's rows of all trajectories,
\* row r of the result being frame r.
get_output(flatlens) == [r \in 1..SumSeq(flatlens) |-> r]

\* The cache cell computing and saving whether or not the file exists (a
\* slip).
mindist_cellRecompute(file, flatlens) ==
    LET m == get_output(flatlens)
    IN  [mindist_flat |-> m, file |-> <<np_save(m)>>, runs |-> 1, saves |-> 1]

\* The classical notebook's cache cell: the file is loaded if it exists,
\* and if not the features are computed and saved.
mindist_cell(file, flatlens) ==
    IF file # <<>>
    THEN [mindist_flat |-> np_load(file[1]), file |-> file, runs |-> 0, saves |-> 0]
    ELSE LET m == get_output(flatlens)
         IN  [mindist_flat |-> m, file |-> <<np_save(m)>>, runs |-> 1, saves |-> 1]

\* The training notebook's cache cell: the features are computed and saved
\* if the file does not exist.
cache_cell(file, flatlens) ==
    IF file = <<>>
    THEN [file |-> <<np_save(get_output(flatlens))>>, runs |-> 1, saves |-> 1]
    ELSE [file |-> file, runs |-> 0, saves |-> 0]

(***************************************************************************)
(* State.                                                                  *)
(***************************************************************************)
VARIABLES
    mindist_flat,   \* the flat feature matrix: a sequence of rows
    flatlengths,    \* inpcon.trajectory_lengths()
    traj_rounds,    \* the group sizes handed to sort_lengths
    lengths,        \* the nested length manifest, None before it is set
    switch,         \* which line set lengths: "none", "single" or "full"
    mindist,        \* the list unflatten returned, None before the call
    input_data,     \* the trajectories handed to DataGenerator
    config,         \* the split configuration
    policy,         \* what is done with too short trajectories
    generator,      \* the split dataset DataGenerator built
    saved,          \* the split index files written by generator.save
    ticscon,        \* the trajectories handed to cv
    nc,             \* cv: number of cluster sizes done
    fold,           \* cv: number of folds of this cluster size done
    folds,          \* cv: what kf.split yielded for this cluster size
    train,          \* cv: the training trajectories of the fold
    test,           \* cv: the test trajectories of the fold
    results,        \* cv: the results list
    np_random,      \* the global random generator's state
    loaded,         \* what a later process loaded from a split index file
    ensemble_data,  \* run cell: the dict input_data, ensemble -> trajectories
    nframes,        \* run cell: the dict nframes, ensemble -> frame count
    outsizes,       \* run cell: the output sizes to train
    sim,            \* run cell: number of ensembles (for k in ...) entered
    ni,             \* run cell: number of output sizes entered
    write,          \* run cell: the results store intermediate/data.hdf5
    koop,           \* run cell: the model, <<>> when there is none
    model_files,    \* run cell: the model files koop.save wrote
    notebook,       \* cache cells: which notebook runs
    cache_file,     \* cache cells: the .npy file, <<>> when it does not exist
    cache_saves,    \* cache cells: number of times np.save wrote the file
    featurizer_runs,\* cache cells: number of times get_output() ran
    raised,         \* the exception that ended the notebook, None if none
    pc              \* position in the notebook

reshapeVars == <<mindist_flat, flatlengths, traj_rounds, lengths, switch, mindist>>
splitVars == <<input_data, config, policy, generator, saved, loaded>>
cvVars == <<ticscon, nc, fold, folds, train, test, results>>
runVars == <<ensemble_data, nframes, outsizes, sim, ni, write, koop, model_files>>
cacheVars == <<notebook, cache_file, cache_saves, featurizer_runs>>
vars == <<reshapeVars, splitVars, cvVars, runVars, cacheVars, np_random, raised, pc>>

\* Flat matrices: row r of an n-row matrix is the feature vector of frame r,
\* written r; rows are pairwise distinct.
Matrix(n) == [r \in 1..n |-> r]
Matrices == {Matrix(n) : n \in 0..MaxRows}
LengthValues == -1..MaxLen

\* The cells of the other parts have not run.
ReshapeIdle ==
    /\ mindist_flat = <<>>
    /\ flatlengths = <<>>
    /\ traj_rounds = <<>>
    /\ lengths = None
    /\ switch = "none"
    /\ mindist = None

SplitIdle ==
    /\ input_data = <<>>
    /\ config = None
    /\ policy = None
    /\ generator = EmptyDataset
    /\ saved = <<>>
    /\ loaded = <<>>

CvIdle ==
    /\ ticscon = <<>>
    /\ nc = 0
    /\ fold = 0
    /\ folds = <<>>
    /\ train = <<>>
    /\ test = <<>>
    /\ results = <<>>

RunIdle ==
    /\ ensemble_data = <<>>
    /\ nframes = <<>>
    /\ outsizes = <<>>
    /\ sim = 0
    /\ ni = 0
    /\ write = ClosedStore
    /\ koop = <<>>
    /\ model_files = {}

CacheIdle ==
    /\ notebook = "none"
    /\ cache_file = <<>>
    /\ cache_saves = 0
    /\ featurizer_runs = 0

(***************************************************************************)
(* The reshaping cells of the notebooks.                                   *)
(***************************************************************************)
InitReshape ==
    /\ mindist_flat \in Matrices
    /\ flatlengths \in SeqsUpTo(LengthValues, MaxTraj)
    /\ traj_rounds \in SeqsUpTo(LengthValues, MaxGroups)
    /\ lengths = None
    /\ switch = "none"
    /\ mindist = None
    /\ SplitIdle
    /\ CvIdle
    /\ RunIdle
    /\ CacheIdle
    /\ np_random = 0
    /\ raised = None
    /\ pc = "lengths"

\* lengths = [inpcon.trajectory_lengths()]
LengthsSingle ==
    /\ pc = "lengths"
    /\ lengths' = <<flatlengths>>
    /\ switch' = "single"
    /\ pc' = "unflatten"
    /\ UNCHANGED <<mindist_flat, flatlengths, traj_rounds, mindist, raised>>
    /\ UNCHANGED <<splitVars, cvVars, runVars, cacheVars, np_random>>

\* lengths = sort_lengths(inpcon.trajectory_lengths(), traj_rounds)
LengthsFull ==
    /\ pc = "lengths"
    /\ LET r == sort_lengths(flatlengths, traj_rounds)
       IN  /\ switch' = "full"
           /\ IF r.raised # None
              THEN /\ raised' = r.raised
                   /\ pc' = "failed"
                   /\ UNCHANGED lengths
              ELSE /\ lengths' = r.value
                   /\ pc' = "unflatten"
                   /\ UNCHANGED raised
    /\ UNCHANGED <<mindist_flat, flatlengths, traj_rounds, mindist>>
    /\ UNCHANGED <<splitVars, cvVars, runVars, cacheVars, np_random>>

\* unflatten taking the rows off its source as it goes (a slip).
UnflattenConsuming ==
    /\ pc = "unflatten"
    /\ mindist' = unflatten(mindist_flat, lengths)
    /\ mindist_flat' = <<>>
    /\ pc' = "done"
    /\ UNCHANGED <<flatlengths, traj_rounds, lengths, switch, raised>>
    /\ UNCHANGED <<splitVars, cvVars, runVars, cacheVars, np_random>>

\* mindist = unflatten(mindist_flat, lengths)
Unflatten ==
    /\ pc = "unflatten"
    /\ mindist' = unflatten(mindist_flat, lengths)
    /\ pc' = "done"
    /\ UNCHANGED <<mindist_flat, flatlengths, traj_rounds, lengths, switch, raised>>
    /\ UNCHANGED <<splitVars, cvVars, runVars, cacheVars, np_random>>

NextReshape == LengthsSingle \/ LengthsFull \/ Unflatten

SpecReshape == InitReshape /\ [][NextReshape]_vars

(***************************************************************************)
(* The split of the training notebook's run cell:                          *)
(*   generator = DataGenerator(input_data[k], ratio=ratio, ...)            *)
(*   generator.save("models/model-idx-{k}-{attempt}.hdf5")                  *)
(* input_data[k] is what unflatten made of the flat matrix.                *)
(***************************************************************************)
Ratios == {[num |-> p, den |-> RatioDen] : p \in 0..RatioDen}
\* An optional value is the empty sequence or a sequence of one value.
Seeds == {<<>>} \cup {<<k>> : k \in 0..MaxSeed}
Caps == {<<>>, <<MaxCap>>}
Configurations ==
    [ratio : Ratios, lagTimeFrames : 0..MaxLag, maxFrames : Caps, randomSeed : Seeds]

\* The trajectories unflatten returns for per-trajectory frame counts lens.
TrajectoriesOf(lens) == unflatten(Matrix(SumSeq(lens)), <<lens>>)

InitSplit ==
    /\ \E lens \in SeqsUpTo(1..MaxFrames, MaxSplitTraj) :
          input_data = TrajectoriesOf(lens)
    /\ config \in Configurations
    /\ policy \in {"reject", "exclude"}
    /\ generator = EmptyDataset
    /\ saved = <<>>
    /\ loaded = <<>>
    /\ ReshapeIdle
    /\ CvIdle
    /\ RunIdle
    /\ CacheIdle
    /\ np_random \in RngStates
    /\ raised = None
    /\ pc = "construct"

\* generator = DataGenerator(input_data[k], ...): with a seed the split's
\* generator is seeded from it, without one the global generator is used.
Construct ==
    /\ pc = "construct"
    /\ LET seeded == config.randomSeed # <<>>
           r == construct(input_data, config, policy,
                          IF seeded THEN Seeded(config.randomSeed[1])
                          ELSE np_random)
       IN  /\ np_random' = IF seeded THEN np_random ELSE r.rng
           /\ IF r.raised # None
              THEN /\ raised' = r.raised
                   /\ pc' = "failed"
                   /\ UNCHANGED generator
              ELSE /\ generator' = r.dataset
                   /\ pc' = "save"
                   /\ UNCHANGED raised
    /\ UNCHANGED <<input_data, config, policy, saved, loaded>>
    /\ UNCHANGED <<reshapeVars, cvVars, runVars, cacheVars>>

\* generator.save(...): the trajectory-to-partition assignment is written
\* to the index file, unless the file cannot be written (OSError).
Save ==
    /\ pc = "save"
    /\ \E ok \in BOOLEAN :
          IF ok
          THEN /\ saved' = Append(saved, persist(generator))
               /\ pc' = "saved"
               /\ UNCHANGED raised
          ELSE /\ raised' = "OSError"
               /\ pc' = "failed"
               /\ UNCHANGED saved
    /\ UNCHANGED <<input_data, config, policy, generator, loaded>>
    /\ UNCHANGED <<reshapeVars, cvVars, runVars, cacheVars, np_random>>

\* A later process loads the index file and derives the split again from
\* the same trajectories.
Load ==
    /\ pc = "saved"
    /\ LET r == load(saved[Len(saved)], input_data, config, np_random)
       IN  /\ loaded' = <<r.dataset>>
           /\ np_random' = IF config.randomSeed # <<>> THEN np_random ELSE r.rng
    /\ pc' = "loaded"
    /\ UNCHANGED <<input_data, config, policy, generator, saved>>
    /\ UNCHANGED <<reshapeVars, cvVars, runVars, cacheVars, raised>>

NextSplit == Construct \/ Save \/ Load

SpecSplit == InitSplit /\ [][NextSplit]_vars

(***************************************************************************)
(* The hyperparameter scan of the classical notebook:                      *)
(*   kf = KFold(n_splits=5, shuffle=True)                                  *)
(*   def cv(ntic, clust): for n_clust in n_clusters:                       *)
(*       for fold, (train_inds, test_inds) in enumerate(kf.split(fulltics))*)
(***************************************************************************)
InitCV ==
    /\ \E n \in 1..MaxCvTraj : ticscon = TrajectoriesOf([i \in 1..n |-> 2])
    /\ nc = 0
    /\ fold = 0
    /\ folds = <<>>
    /\ train = <<>>
    /\ test = <<>>
    /\ results = <<>>
    /\ ReshapeIdle
    /\ SplitIdle
    /\ RunIdle
    /\ CacheIdle
    /\ np_random \in RngStates
    /\ raised = None
    /\ pc = "cv_split"

\* kf.split(fulltics), entered once for every n_clust.
CvSplit ==
    /\ pc = "cv_split"
    /\ LET r == KFoldSplit(Len(ticscon), np_random)
       IN  /\ np_random' = r.rng
           /\ IF r.raised # None
              THEN /\ raised' = r.raised
                   /\ pc' = "failed"
                   /\ UNCHANGED folds
              ELSE /\ folds' = r.folds
                   /\ pc' = "cv_fold"
                   /\ UNCHANGED raised
    /\ fold' = 0
    /\ UNCHANGED <<ticscon, nc, train, test, results>>
    /\ UNCHANGED <<reshapeVars, splitVars, runVars, cacheVars>>

\* One pass of the fold loop's body: train and test are selected, the model
\* is fitted and scored (outside this model) and the result appended.
CvFold ==
    /\ pc = "cv_fold"
    /\ train' = Select(ticscon, folds[fold + 1].train_inds)
    /\ test' = Select(ticscon, folds[fold + 1].test_inds)
    /\ results' = Append(results, [n_clust |-> n_clusters[nc + 1], fold |-> fold])
    /\ fold' = fold + 1
    /\ IF fold + 1 < Len(folds)
       THEN /\ pc' = "cv_fold"
            /\ UNCHANGED nc
       ELSE /\ nc' = nc + 1
            /\ pc' = IF nc + 1 < Len(n_clusters) THEN "cv_split" ELSE "cv_done"
    /\ UNCHANGED <<ticscon, folds>>
    /\ UNCHANGED <<reshapeVars, splitVars, runVars, cacheVars, np_random, raised>>

NextCV == CvSplit \/ CvFold

SpecCV == InitCV /\ [][NextCV]_vars

\* Both splitters of the repository: the run cell's DataGenerator and the
\* scan's K-fold split.
InitSplitters == InitSplit \/ InitCV

NextSplitters == NextSplit \/ NextCV

SpecSplitters == InitSplitters /\ [][NextSplitters]_vars

(***************************************************************************)
(* The run cell of the training notebook:                                  *)
(*   with h5py.File("intermediate/data.hdf5", "a") as write:               *)
(*       for k in ("red", "ox"):                                           *)
(*           ens, att = groups k and k/attempt                             *)
(*           generator = DataGenerator(input_data[k], ...)                 *)
(*           generator.save(...)                                           *)
(*           for n in outsizes:                                            *)
(*               out = group k/attempt/n; koop = KoopmanModel(n=n, ...)    *)
(*               koop.fit(generator); koop.save(...)                       *)
(*               k, mu, its, cke, ckp, bootstrap, full are written         *)
(*               del koop                                                  *)
(* A group is the path of its names; an exception leaves the with block,   *)
(* whose exit closes the store.                                            *)
(***************************************************************************)
sim_names == <<"red", "ox">>
attempt == 0
steps == 6
lags == <<1, 2, 5, 10, 20, 50, 100>>

\* The output sizes tried: the reduced list and the start of the full one.
OutsizeLists == {<<4>>, <<4, 2>>}

\* The frame counts of an ensemble's trajectories.
RunLengths == {<<MaxLen, MaxLen>>, <<1, MaxLen + 1>>}

\* A store holding the results of another attempt of an earlier run.
EarlierStore ==
    [open |-> FALSE,
     groups |-> {<<"red">>, <<"red", attempt + 1>>, <<"red", attempt + 1, 4>>},
     datasets |-> {[group |-> <<"red", attempt + 1, 4>>, name |-> "k",
                    shape |-> <<4, 4>>,
                    value |-> <<[ens |-> "red", n |-> 4, attempt |-> attempt + 1]>>]}]

\* The stores the run cell can find.
StoresBefore == {ClosedStore, EarlierStore}

\* The training notebook's split configurations: no seed is given and the
\* frame cap is always set.
RunConfigurations ==
    {c \in Configurations : c.randomSeed = <<>> /\ c.maxFrames = <<MaxCap>>}

\* nframes[k] and input_data[k] as the cells before the run cell leave them:
\* nframes[k] is the sum of the trajectory lengths, input_data[k] is what
\* unflatten made of the cache file's matrix, which holds every frame or,
\* when it is an older file, fewer.
InitRun ==
    /\ \E lens \in [{"red", "ox"} -> RunLengths], missing \in [{"red", "ox"} -> 0..1] :
          /\ nframes = [e \in {"red", "ox"} |-> SumSeq(lens[e])]
          /\ ensemble_data =
                [e \in {"red", "ox"} |->
                    unflatten(Matrix(SumSeq(lens[e]) - missing[e]), <<lens[e]>>)]
    /\ outsizes \in OutsizeLists
    /\ write \in StoresBefore
    /\ sim = 0
    /\ ni = 0
    /\ koop = <<>>
    /\ model_files = {}
    /\ input_data = <<>>
    /\ config \in RunConfigurations
    /\ policy \in {"reject", "exclude"}
    /\ generator = EmptyDataset
    /\ saved = <<>>
    /\ loaded = <<>>
    /\ ReshapeIdle
    /\ CvIdle
    /\ CacheIdle
    /\ np_random = 0
    /\ raised = None
    /\ pc = "run_open"

\* The group of the current ensemble, attempt and output size.
OutGroup == <<sim_names[sim], attempt, outsizes[ni]>>

\* with h5py.File("intermediate/data.hdf5", "a") as write:
RunOpen ==
    /\ pc = "run_open"
    /\ write' = OpenStore(write)
    /\ pc' = "run_ensemble"
    /\ UNCHANGED <<ensemble_data, nframes, outsizes, sim, ni, koop, model_files>>
    /\ UNCHANGED <<reshapeVars, splitVars, cvVars, cacheVars, np_random, raised>>

\* for k in ("red", "ox"): ens = write.require_group(k);
\* att = ens.require_group(str(attempt)); input_data[k] is what the split
\* is built from.  After the last ensemble the with block is left.
RunEnsemble ==
    /\ pc = "run_ensemble"
    /\ IF sim < Len(sim_names)
       THEN /\ sim' = sim + 1
            /\ write' = require_group(require_group(write, <<sim_names[sim + 1]>>),
                                      <<sim_names[sim + 1], attempt>>)
            /\ input_data' = ensemble_data[sim_names[sim + 1]]
            /\ pc' = "construct"
       ELSE /\ pc' = "run_exit"
            /\ UNCHANGED <<sim, write, input_data>>
    /\ ni' = 0
    /\ UNCHANGED <<ensemble_data, nframes, outsizes, koop, model_files>>
    /\ UNCHANGED <<config, policy, generator, saved, loaded>>
    /\ UNCHANGED <<reshapeVars, cvVars, cacheVars, np_random, raised>>

\* for n in outsizes: out = att.require_group(str(n));
\* koop = KoopmanModel(n=n, ...).  After the last size the next ensemble
\* is entered.
RunOutsize ==
    /\ pc \in {"saved", "run_outsize"}
    /\ write.open
    /\ IF ni < Len(outsizes)
       THEN /\ ni' = ni + 1
            /\ write' = require_group(write, <<sim_names[sim], attempt,
                                              outsizes[ni + 1]>>)
            /\ koop' = <<[n |-> outsizes[ni + 1], fitted |-> FALSE]>>
            /\ pc' = "run_fit"
       ELSE /\ pc' = "run_ensemble"
            /\ UNCHANGED <<ni, write, koop>>
    /\ UNCHANGED <<ensemble_data, nframes, outsizes, sim, model_files>>
    /\ UNCHANGED <<reshapeVars, splitVars, cvVars, cacheVars, np_random, raised>>

\* koop.fit(generator): the model is fitted on the split, or the fit fails.
RunFit ==
    /\ pc = "run_fit"
    /\ \E ok \in BOOLEAN :
          IF ok
          THEN /\ koop' = <<[n |-> koop[1].n, fitted |-> TRUE,
                            ens |-> sim_names[sim], data |-> generator]>>
               /\ pc' = "run_save"
               /\ UNCHANGED raised
          ELSE /\ raised' = "FitError"
               /\ pc' = "failed"
               /\ UNCHANGED koop
    /\ UNCHANGED <<ensemble_data, nframes, outsizes, sim, ni, write, model_files>>
    /\ UNCHANGED <<reshapeVars, splitVars, cvVars, cacheVars, np_random>>

\* koop.save("models/model-ve-{k}-{n}-{attempt}.hdf5")
RunSave ==
    /\ pc = "run_save"
    /\ model_files' = model_files \cup {<<koop[1].ens, koop[1].n, attempt>>}
    /\ pc' = "write_k"
    /\ UNCHANGED <<ensemble_data, nframes, outsizes, sim, ni, write, koop>>
    /\ UNCHANGED <<reshapeVars, splitVars, cvVars, cacheVars, np_random, raised>>

\* What the model's estimates are made from: the model that computed them.
FromModel(model) == [ens |-> model.ens, n |-> model.n, attempt |-> attempt]

\* koop.transform(data): one row of 2n values for every row of data.
transform(model, data) ==
    [shape |-> <<Len(data), 2 * model.n>>, from |-> FromModel(model)]

\* koop.data.n_train: the number of training pairs of the split.
n_train(model) == Len(model.data.train.instant)

\* name = out.require_dataset(name, shape=shape); name[:] = value
\* for each of the datasets in names (cke and ckp are required together and
\* then assigned together), after which the cell stands at next.
WriteResult(names, shape, value, next) ==
    LET r1 == require_dataset(write, OutGroup, names[1], shape)
        r2 == IF Len(names) = 1 \/ r1.raised # None THEN r1
              ELSE require_dataset(r1.store, OutGroup, names[2], shape)
        a1 == IF r2.raised # None THEN r2
              ELSE assign_dataset(r2.store, OutGroup, names[1], value)
        a2 == IF Len(names) = 1 \/ a1.raised # None THEN a1
              ELSE assign_dataset(a1.store, OutGroup, names[2], value)
    IN  /\ write' = a2.store
        /\ IF a2.raised # None
           THEN /\ raised' = a2.raised
                /\ pc' = "failed"
           ELSE /\ pc' = next
                /\ UNCHANGED raised
        /\ UNCHANGED <<ensemble_data, nframes, outsizes, sim, ni, koop, model_files>>
        /\ UNCHANGED <<reshapeVars, splitVars, cvVars, cacheVars, np_random>>

\* ko = out.require_dataset("k", shape=(n, n)); ko[:] = koop.estimate_koopman(lag=50)
WriteK ==
    /\ pc = "write_k"
    /\ WriteResult(<<"k">>, <<koop[1].n, koop[1].n>>,
                   [shape |-> <<koop[1].n, koop[1].n>>, from |-> FromModel(koop[1])],
                   "write_mu")

\* mu = out.require_dataset("mu", shape=(koop.data.n_train,)); mu[:] = koop.mu
WriteMu ==
    /\ pc = "write_mu"
    /\ WriteResult(<<"mu">>, <<n_train(koop[1])>>,
                   [shape |-> <<n_train(koop[1])>>, from |-> FromModel(koop[1])],
                   "write_its")

\* its = out.require_dataset("its", shape=(n - 1, len(lags))); its[:] = koop.its(lags)
WriteIts ==
    /\ pc = "write_its"
    /\ WriteResult(<<"its">>, <<koop[1].n - 1, Len(lags)>>,
                   [shape |-> <<koop[1].n - 1, Len(lags)>>, from |-> FromModel(koop[1])],
                   "write_ck")

\* cke, ckp = out.require_dataset(..., shape=(n, n, steps)) each;
\* cke[:], ckp[:] = koop.cktest(steps)
WriteCk ==
    /\ pc = "write_ck"
    /\ WriteResult(<<"cke", "ckp">>, <<koop[1].n, koop[1].n, steps>>,
                   [shape |-> <<koop[1].n, koop[1].n, steps>>,
                    from |-> FromModel(koop[1])],
                   "write_bootstrap")

\* bootstrap = out.require_dataset("bootstrap", shape=(koop.data.n_train, 2 * n));
\* bootstrap[:] = koop.transform(koop.data.trains[0])
WriteBootstrap ==
    /\ pc = "write_bootstrap"
    /\ WriteResult(<<"bootstrap">>, <<n_train(koop[1]), 2 * koop[1].n>>,
                   transform(koop[1], koop[1].data.train.instant),
                   "write_full")

\* full = out.require_dataset("full", shape=(nframes[k], 2 * n));
\* full[:] = koop.transform(generator.data_flat)
WriteFull ==
    /\ pc = "write_full"
    /\ WriteResult(<<"full">>, <<nframes[sim_names[sim]], 2 * koop[1].n>>,
                   transform(koop[1], generator.flatConcatenation),
                   "run_del")

\* del koop; gc.collect()
RunDel ==
    /\ pc = "run_del"
    /\ koop' = <<>>
    /\ pc' = "run_outsize"
    /\ UNCHANGED <<ensemble_data, nframes, outsizes, sim, ni, write, model_files>>
    /\ UNCHANGED <<reshapeVars, splitVars, cvVars, cacheVars, np_random, raised>>

\* The with block is left, at its end or by an exception: the store is
\* closed.
WithExit ==
    /\ pc \in {"run_exit", "failed"}
    /\ write.open
    /\ write' = CloseStore(write)
    /\ pc' = IF pc = "failed" THEN "run_failed" ELSE "run_done"
    /\ UNCHANGED <<ensemble_data, nframes, outsizes, sim, ni, koop, model_files>>
    /\ UNCHANGED <<reshapeVars, splitVars, cvVars, cacheVars, np_random, raised>>

NextRun ==
    \/ RunOpen
    \/ RunEnsemble
    \/ Construct
    \/ Save
    \/ RunOutsize
    \/ RunFit
    \/ RunSave
    \/ WriteK
    \/ WriteMu
    \/ WriteIts
    \/ WriteCk
    \/ WriteBootstrap
    \/ WriteFull
    \/ RunDel
    \/ WithExit

SpecRun == InitRun /\ [][NextRun]_vars

(***************************************************************************)
(* The cache cells.  Classical notebook:                                   *)
(*   if os.path.exists(filename): mindist_flat = np.load(filename)         *)
(*   else: mindist_flat = np.vstack(...get_output()); np.save(...)         *)
(*   mindist = unflatten(mindist_flat, lengths)                            *)
(* Training notebook, for each ensemble:                                   *)
(*   if not os.path.exists(filename): con = ...; np.save(filename, con)    *)
(*   raw = np.load(filename); input_data[k] = unflatten(raw, lengths[k])   *)
(***************************************************************************)
\* The matrices a cache file found on disk can hold: the frames of some
\* trajectories, these or others.
CachedMatrices == {[r \in 1..n |-> r + d] : n \in 0..MaxRows, d \in {0, MaxRows}}

InitCache ==
    /\ notebook \in {"classic", "vampe"}
    /\ cache_file \in {<<>>} \cup {<<np_save(m)>> : m \in CachedMatrices}
    /\ cache_saves = 0
    /\ featurizer_runs = 0
    /\ mindist_flat = <<>>
    /\ flatlengths \in SeqsUpTo(0..MaxLen, MaxTraj)
    /\ traj_rounds = <<Len(flatlengths)>>
    /\ lengths = None
    /\ switch = "none"
    /\ mindist = None
    /\ SplitIdle
    /\ CvIdle
    /\ RunIdle
    /\ np_random = 0
    /\ raised = None
    /\ pc = "lengths"

\* The classical notebook's cell, unflatten included.
MindistCell ==
    /\ pc = "unflatten"
    /\ notebook = "classic"
    /\ LET r == mindist_cell(cache_file, flatlengths)
       IN  /\ mindist_flat' = r.mindist_flat
           /\ cache_file' = r.file
           /\ cache_saves' = cache_saves + r.saves
           /\ featurizer_runs' = featurizer_runs + r.runs
           /\ mindist' = unflatten(r.mindist_flat, lengths)
    /\ pc' = "done"
    /\ UNCHANGED <<flatlengths, traj_rounds, lengths, switch, notebook>>
    /\ UNCHANGED <<splitVars, cvVars, runVars, np_random, raised>>

\* The training notebook's cache cell.
CacheCell ==
    /\ pc = "unflatten"
    /\ notebook = "vampe"
    /\ LET r == cache_cell(cache_file, flatlengths)
       IN  /\ cache_file' = r.file
           /\ cache_saves' = cache_saves + r.saves
           /\ featurizer_runs' = featurizer_runs + r.runs
    /\ pc' = "load"
    /\ UNCHANGED <<reshapeVars, notebook>>
    /\ UNCHANGED <<splitVars, cvVars, runVars, np_random, raised>>

\* The training notebook's load cell: raw is held in mindist_flat.
LoadCell ==
    /\ pc = "load"
    /\ mindist_flat' = np_load(cache_file[1])
    /\ input_data' = unflatten(mindist_flat', lengths)
    /\ pc' = "done"
    /\ UNCHANGED <<flatlengths, traj_rounds, lengths, switch, mindist>>
    /\ UNCHANGED <<config, policy, generator, saved, loaded>>
    /\ UNCHANGED <<cvVars, runVars, cacheVars, np_random, raised>>

NextCache == LengthsSingle \/ LengthsFull \/ MindistCell \/ CacheCell \/ LoadCell

SpecCache == InitCache /\ [][NextCache]_vars

(***************************************************************************)
(* Properties of the reshaping utilities.                                  *)
(***************************************************************************)
NonNegative(s) == \A i \in 1..Len(s) : s[i] >= 0

\* The manifest's lengths are all non-negative and sum to the row count.
ManifestMatches ==
    /\ lengths # None
    /\ NonNegative(Chain(lengths))
    /\ SumSeq(Chain(lengths)) = Len(mindist_flat)

\* C1: when the manifest's lengths are non-negative and sum to the flat
\* matrix's row count, the arrays unflatten returned, concatenated in order,
\* are exactly the flat matrix: same rows, same order, none dropped, none
\* duplicated.
C1_RoundTrip ==
    (pc = "done" /\ ManifestMatches) => Chain(mindist) = mindist_flat

\* C1 witness: unflatten has returned for a matching two-group manifest with
\* a zero-length trajectory on a matrix of at least three rows.
C1_Witness ==
    /\ pc = "done"
    /\ ManifestMatches
    /\ Len(lengths) = 2
    /\ Len(mindist_flat) >= 3
    /\ \E i \in 1..Len(Chain(lengths)) : Chain(lengths)[i] = 0
    /\ Len(mindist) = 3

\* C2: when the manifest's (non-negative) lengths do not sum to the flat
\* matrix's row count, whether the sum is smaller or larger, unflatten fails
\* and returns no output (never a truncated or shortened list of
\* trajectories).
C2_MismatchFails ==
    (/\ lengths # None
     /\ NonNegative(Chain(lengths))
     /\ SumSeq(Chain(lengths)) # Len(mindist_flat))
        => (pc # "done" /\ mindist = None)

\* Start row (0-based) of the i-th manifest entry: the sum of all earlier lengths.
OffsetOf(flat, i) == SumSeq(SubSeq(flat, 1, i - 1))

\* C3: unflatten returns exactly one array per manifest entry, in manifest
\* order across the groups; for a matching manifest the i-th array is the
\* contiguous row range that starts at the sum of all earlier lengths and has
\* as many rows as the i-th length.
C3_OnePerEntry ==
    pc = "done" =>
        LET flat == Chain(lengths)
        IN  /\ Len(mindist) = Len(flat)
            /\ ManifestMatches =>
                 \A i \in 1..Len(flat) :
                    /\ Len(mindist[i]) = flat[i]
                    /\ mindist[i] = [r \in 1..flat[i] |->
                                        mindist_flat[OffsetOf(flat, i) + r]]

\* C3 witness: the manifest [[1, 2], [1]] on 4 rows gave 3 arrays of 1, 2
\* and 1 rows in that order (the shape of [[40, 60], [100]] on 200 rows).
C3_Witness ==
    /\ pc = "done"
    /\ lengths = << <<1, 2>>, <<1>> >>
    /\ Len(mindist_flat) = 4
    /\ mindist = << <<1>>, <<2, 3>>, <<4>> >>

\* sort_lengths returned one group per group size, group j of traj_rounds[j]
\* elements, and the groups in order are flatlengths element for element.
SortedIntoGroups ==
    /\ raised = None
    /\ lengths # None
    /\ Len(lengths) = Len(traj_rounds)
    /\ \A j \in 1..Len(traj_rounds) : Len(lengths[j]) = traj_rounds[j]
    /\ Chain(lengths) = flatlengths

\* C4 as stated: for every flatlengths and group sizes with
\* sum(group sizes) = len(flatlengths), sort_lengths returns the groups of
\* the stated sizes, whose concatenation is flatlengths.
C4_EveryGroupSizes ==
    (switch = "full" /\ SumSeq(traj_rounds) = Len(flatlengths))
        => SortedIntoGroups

\* C4 amended: the same for group sizes that are all non-negative; the
\* values of flatlengths, zero and negative ones included, are copied
\* through unchanged and in order.
C4_NonNegativeGroupSizes ==
    (/\ switch = "full"
     /\ SumSeq(traj_rounds) = Len(flatlengths)
     /\ NonNegative(traj_rounds))
        => SortedIntoGroups

\* C4 witness: two groups were built from lengths that hold a negative and,
\* out of ascending order, a smaller value.
C4_Witness ==
    /\ switch = "full"
    /\ traj_rounds = <<2, 1>>
    /\ flatlengths = <<2, -1, 0>>
    /\ lengths = << <<2, -1>>, <<0>> >>

\* C5: when the sum of the (non-negative) group sizes differs from
\* len(flatlengths), asking for fewer or for more elements than exist,
\* sort_lengths fails instead of returning a nested list.
C5_MismatchFails ==
    (/\ switch = "full"
     /\ NonNegative(traj_rounds)
     /\ SumSeq(traj_rounds) # Len(flatlengths))
        => (pc = "failed" /\ raised # None /\ lengths = None)

\* The lengths are non-negative and sum to the row count, and the group
\* sizes sum to the number of lengths.
GroupingMatches ==
    /\ switch = "full"
    /\ NonNegative(flatlengths)
    /\ SumSeq(flatlengths) = Len(mindist_flat)
    /\ SumSeq(traj_rounds) = Len(flatlengths)

\* C6 as stated: for matching inputs, unflatten with the lengths grouped by
\* sort_lengths returns the same list of arrays as unflatten with all the
\* lengths in one group.
C6_EveryGrouping ==
    GroupingMatches =>
        /\ pc # "failed"
        /\ pc = "done" => mindist = unflatten(mindist_flat, <<flatlengths>>)

\* C6 amended: the same for group sizes that are all non-negative.
C6_NonNegativeGrouping ==
    (GroupingMatches /\ NonNegative(traj_rounds)) =>
        /\ pc # "failed"
        /\ pc = "done" => mindist = unflatten(mindist_flat, <<flatlengths>>)

\* C6 witness: three trajectories in two groups were unflattened from a
\* matrix of at least three rows.
C6_Witness ==
    /\ pc = "done"
    /\ GroupingMatches
    /\ NonNegative(traj_rounds)
    /\ Len(lengths) = 2
    /\ Len(flatlengths) = 3
    /\ Len(mindist_flat) >= 3
    /\ Len(lengths[1]) >= 1
    /\ Len(lengths[2]) >= 1

(***************************************************************************)
(* Properties of the splitters.                                            *)
(***************************************************************************)
Range(s) == {s[k] : k \in 1..Len(s)}

\* The frames of a list of trajectories, and of a pair set.
FramesOf(trajs) == UNION {Range(trajs[k]) : k \in 1..Len(trajs)}
PairFrames(pairs) == Range(pairs.instant) \cup Range(pairs.lagged)

\* The indices in ticscon of the trajectories of a cv list.
CvIndices(list) == {i \in 1..Len(ticscon) : \E k \in 1..Len(list) : list[k] = ticscon[i]}

\* DataGenerator has built a split.
Constructed == pc \in {"save", "saved", "loaded"}

\* C7: in every train/test split whole trajectories are assigned to exactly
\* one side: the trajectory indices of the train side and of the test side
\* are disjoint, and no frame of a training trajectory is in the test data.
\* For DataGenerator's split and for every fold of cv's K-fold split.
C7_NoLeakage ==
    /\ Constructed =>
          /\ Range(generator.trainIdx) \cap Range(generator.testIdx) = {}
          /\ PairFrames(generator.train) \subseteq
                FramesOf([k \in 1..Len(generator.trainIdx) |->
                             input_data[generator.trainIdx[k]]])
          /\ PairFrames(generator.test) \subseteq
                FramesOf([k \in 1..Len(generator.testIdx) |->
                             input_data[generator.testIdx[k]]])
          /\ PairFrames(generator.train) \cap PairFrames(generator.test) = {}
    /\ results # <<>> =>
          /\ Range(train) \subseteq Range(ticscon)
          /\ Range(test) \subseteq Range(ticscon)
          /\ CvIndices(train) \cap CvIndices(test) = {}
          /\ FramesOf(train) \cap FramesOf(test) = {}

\* C7 witness: a fold of six trajectories with four on the train side and
\* two on the test side.
C7_Witness ==
    /\ results # <<>>
    /\ Len(ticscon) = 6
    /\ Len(train) = 4
    /\ Len(test) = 2

\* The position in idx of the trajectory that holds frame x (0 if none).
HolderOf(idx, x) ==
    IF \E k \in 1..Len(idx) : x \in Range(input_data[idx[k]])
    THEN CHOOSE k \in 1..Len(idx) : x \in Range(input_data[idx[k]])
    ELSE 0

\* The position of frame x in trajectory traj.
FrameIndex(traj, x) == CHOOSE i \in 1..Len(traj) : traj[i] = x

Max0(x) == IF x > 0 THEN x ELSE 0

\* The pairs of one partition are those built for lag L from its trajectories.
PairsWellFormed(pairs, idx, L, whole) ==
    /\ Len(pairs.instant) = Len(pairs.lagged)
    /\ \A k \in 1..Len(pairs.instant) :
          LET h == HolderOf(idx, pairs.instant[k])
          IN  /\ h # 0
              /\ h = HolderOf(idx, pairs.lagged[k])
              /\ FrameIndex(input_data[idx[h]], pairs.lagged[k])
                    = FrameIndex(input_data[idx[h]], pairs.instant[k]) + L
    /\ whole =>
          /\ \A t \in 1..Len(idx) :
                Cardinality({k \in 1..Len(pairs.instant) :
                                HolderOf(idx, pairs.instant[k]) = t})
                    = Max0(Len(input_data[idx[t]]) - L)
          /\ \A k \in 1..(Len(pairs.instant) - 1) :
                LET h1 == HolderOf(idx, pairs.instant[k])
                    h2 == HolderOf(idx, pairs.instant[k + 1])
                IN  \/ h1 < h2
                    \/ /\ h1 = h2
                       /\ FrameIndex(input_data[idx[h1]], pairs.instant[k])
                            < FrameIndex(input_data[idx[h1]], pairs.instant[k + 1])

\* No pair of the partition was dropped by the frame cap.
NotCapped(count) == config.maxFrames = <<>> \/ count <= config.maxFrames[1]

\* C8: for lag L >= 1 every lagged pair of a partition is (frame i, frame
\* i + L) of one trajectory of that partition, so no pair crosses a
\* trajectory boundary; a trajectory of length N gives max(0, N - L) pairs,
\* and the pairs stand in trajectory order and frame order.
C8_LaggedPairs ==
    Constructed =>
        /\ PairsWellFormed(generator.train, generator.trainIdx,
                           config.lagTimeFrames,
                           NotCapped(generator.trainPairCount))
        /\ PairsWellFormed(generator.test, generator.testIdx,
                           config.lagTimeFrames,
                           NotCapped(generator.testPairCount))

\* C8 witness: with lag 1 and no cap the train side holds a trajectory of
\* three frames (two pairs) after one of a single frame (no pair), and the
\* pairs built do not all come from one trajectory.
C8_Witness ==
    /\ Constructed
    /\ config.lagTimeFrames = 1
    /\ config.maxFrames = <<>>
    /\ Len(generator.trainIdx) = 3
    /\ Len(input_data[generator.trainIdx[1]]) = 2
    /\ Len(input_data[generator.trainIdx[2]]) = 1
    /\ Len(input_data[generator.trainIdx[3]]) = 3
    /\ Len(generator.train.instant) = 3

\* C9: the trajectory list is partitioned with the train count equal to
\* ratio times the trajectory count rounded down; train count plus test
\* count is the trajectory count, and with more than one trajectory at
\* least one is assigned to test.
C9_TrainCountRoundedDown ==
    Constructed =>
        LET n == Len(input_data)
            ntrain == generator.trainTrajectoryCount
            ntest == generator.testTrajectoryCount
        IN  /\ ntrain * config.ratio.den <= config.ratio.num * n
            /\ config.ratio.num * n < (ntrain + 1) * config.ratio.den
            /\ ntrain + ntest = n
            /\ n > 1 => ntest >= 1
            /\ Len(generator.trainIdx) = ntrain
            /\ Len(generator.testIdx) = ntest
            /\ Cardinality(Range(generator.trainIdx)) = ntrain
            /\ Cardinality(Range(generator.testIdx)) = ntest
            /\ Range(generator.trainIdx) \cup Range(generator.testIdx) = 1..n
            /\ Range(generator.trainIdx) \cap Range(generator.testIdx) = {}

\* C9 witness: 4 trajectories with ratio 3/4 = 0.75 gave 3 train and 1 test.
C9_Witness ==
    /\ Constructed
    /\ Len(input_data) = 4
    /\ config.ratio = [num |-> 3, den |-> 4]
    /\ generator.trainTrajectoryCount = 3
    /\ generator.testTrajectoryCount = 1

\* C10: splitting is deterministic: a split constructed again on the same
\* trajectory list with the same configuration gives the identical
\* assignment.  Here: when cv enters kf.split(fulltics) again for the next
\* cluster size, the folds are those of the time before.
C10_SameSplitAgain ==
    [][(pc = "cv_split" /\ nc > 0 /\ pc' = "cv_fold") => folds' = folds]_vars


\* The smaller of two numbers.
Min2(a, b) == IF a <= b THEN a ELSE b

\* The pair count a partition of `count` available pairs ends with.
CappedCount(count) ==
    IF config.maxFrames = <<>> THEN count ELSE Min2(config.maxFrames[1], count)

\* No pair stands twice in the pair set (frames are pairwise distinct, so a
\* pair is known by its two frames).
NoPairRepeated(pairs) ==
    \A j, k \in 1..Len(pairs.instant) :
        (pairs.instant[j] = pairs.instant[k] /\ pairs.lagged[j] = pairs.lagged[k])
            => j = k

\* C11: with a frame cap maxFrames set, each partition's pair count is
\* min(maxFrames, number of pairs available): more pairs are subsampled
\* without replacement to exactly maxFrames pairs, each one of the original
\* pairs of one trajectory of the partition and none repeated; with fewer
\* pairs than the cap the call does not fail and keeps the available pairs.
C11_FrameCap ==
    /\ Constructed =>
          /\ Len(generator.train.instant) = CappedCount(generator.trainPairCount)
          /\ Len(generator.test.instant) = CappedCount(generator.testPairCount)
          /\ PairsWellFormed(generator.train, generator.trainIdx,
                             config.lagTimeFrames, FALSE)
          /\ PairsWellFormed(generator.test, generator.testIdx,
                             config.lagTimeFrames, FALSE)
          /\ NoPairRepeated(generator.train)
          /\ NoPairRepeated(generator.test)
          /\ generator.trainPairCount
                = SumSeq([k \in 1..Len(generator.trainIdx) |->
                            Max0(Len(input_data[generator.trainIdx[k]])
                                 - config.lagTimeFrames)])
          /\ generator.testPairCount
                = SumSeq([k \in 1..Len(generator.testIdx) |->
                            Max0(Len(input_data[generator.testIdx[k]])
                                 - config.lagTimeFrames)])
    /\ (pc = "failed" /\ raised # "OSError") =>
          \/ ~RatioValid(config.ratio)
          \/ config.lagTimeFrames < 1
          \/ TooShort(input_data, config.lagTimeFrames) # {}

\* C11 witness: with the cap set the train side had more pairs than the cap
\* and was cut to the cap, while the test side had fewer and kept them all.
C11_Witness ==
    /\ Constructed
    /\ config.maxFrames = <<MaxCap>>
    /\ generator.trainPairCount > MaxCap
    /\ Len(generator.train.instant) = MaxCap
    /\ generator.testPairCount > 0
    /\ generator.testPairCount < MaxCap
    /\ Len(generator.test.instant) = generator.testPairCount

\* A pair set as a set: the (instant frame, lagged frame) pairs it holds.
PairSetOf(pairs) ==
    {<<pairs.instant[j], pairs.lagged[j]>> : j \in 1..Len(pairs.instant)}

StoreAsBefore ==
    \E s0 \in StoresBefore :
        write.groups = s0.groups /\ write.datasets = s0.datasets

\* The split configuration fails construct's validation.
ConfigInvalid == ~RatioValid(config.ratio) \/ config.lagTimeFrames < 1

\* The run cell has passed DataGenerator(...) for the first ensemble.
PastFirstConstruct == sim >= 1 /\ pc # "construct"

\* C12: constructing a split with a ratio outside (0, 1) or a lag below 1
\* fails with InvalidConfigError at the point of detection, before any
\* train/test data is produced and before anything is written; no partial
\* split dataset is returned or persisted.
C12_InvalidConfigFailsFirst ==
    (ConfigInvalid /\ PastFirstConstruct) =>
        /\ raised = "InvalidConfigError"
        /\ generator = EmptyDataset
        /\ saved = <<>>
        /\ model_files = {}
        /\ StoreAsBefore

\* The position of ensemble e in sim_names.
SimIndex(e) == CHOOSE j \in 1..Len(sim_names) : sim_names[j] = e

\* The number of training pairs of ensemble e's persisted split.
TrainPairsOf(e) ==
    CappedCount(Len(PartitionPairs(ensemble_data[e], saved[SimIndex(e)].trainIdx,
                                   config.lagTimeFrames).instant))

\* The store holds dataset name of group with this shape, written from the
\* model of ensemble e and output size n, and no other dataset of that name.
HoldsResult(group, name, shape, e, n) ==
    DatasetsAt(write, group, name) =
        {[group |-> group, name |-> name, shape |-> shape,
          value |-> <<[ens |-> e, n |-> n, attempt |-> attempt]>>]}

\* C14: after the run cell completes without error the store holds, for
\* every ensemble of (red, ox), the attempt and every output size n of
\* outsizes, a group ensemble/attempt/n with the datasets k (n x n), mu
\* (n_train), its ((n - 1) x len(lags)), cke and ckp (n x n x steps),
\* bootstrap (n_train x 2n) and full (n_frames x 2n), each written from the
\* model fitted for that (ensemble, n).
C14_StoreComplete ==
    pc = "run_done" =>
        /\ raised = None
        /\ ~write.open
        /\ \A j \in 1..Len(sim_names), i \in 1..Len(outsizes) :
              LET e == sim_names[j]
                  n == outsizes[i]
                  g == <<e, attempt, n>>
              IN  /\ {<<e>>, <<e, attempt>>, g} \subseteq write.groups
                  /\ HoldsResult(g, "k", <<n, n>>, e, n)
                  /\ HoldsResult(g, "mu", <<TrainPairsOf(e)>>, e, n)
                  /\ HoldsResult(g, "its", <<n - 1, Len(lags)>>, e, n)
                  /\ HoldsResult(g, "cke", <<n, n, steps>>, e, n)
                  /\ HoldsResult(g, "ckp", <<n, n, steps>>, e, n)
                  /\ HoldsResult(g, "bootstrap", <<TrainPairsOf(e), 2 * n>>, e, n)
                  /\ HoldsResult(g, "full", <<nframes[e], 2 * n>>, e, n)
                  /\ <<e, n, attempt>> \in model_files

\* C14 witness: the run completed for two output sizes on a store that held
\* another attempt's results, with training pairs on both ensembles.
C14_Witness ==
    /\ pc = "run_done"
    /\ Len(outsizes) = 2
    /\ <<"red", attempt + 1, 4>> \in write.groups
    /\ TrainPairsOf("red") > 0
    /\ TrainPairsOf("ox") > 0

\* The run cell has built the current ensemble's split.
RunConstructed ==
    pc \in {"save", "saved", "run_outsize", "run_fit", "run_save", "write_k",
            "write_mu", "write_its", "write_ck", "write_bootstrap",
            "write_full", "run_del"}

\* C16: the split dataset's flat concatenation holds all original frames of
\* all trajectories in trajectory order, whatever the split and the frame
\* cap, so its row count is the sum of all trajectory lengths (the total
\* frame count), which is the row count the 'full' dataset is declared
\* with, nframes[k].
C16_FlatIsAllFrames ==
    RunConstructed =>
        /\ generator.flatConcatenation = Chain(input_data)
        /\ Len(generator.flatConcatenation) = generator.totalFrameCount
        /\ generator.totalFrameCount
              = SumSeq([i \in 1..Len(input_data) |-> Len(input_data[i])])
        /\ Len(generator.flatConcatenation) = nframes[sim_names[sim]]
        /\ generator.flatConcatenation = Matrix(nframes[sim_names[sim]])

\* C18: the store opened for the results and the split index file are
\* closed on every exit path of the training run, also when the split
\* construction, its persistence or the model fit fails part-way; and a
\* validation failure of the split construction happens before any write to
\* persistent storage has begun.
C18_ReleasedAndNothingWritten ==
    /\ pc \in {"run_done", "run_failed"} => ~write.open
    /\ (pc = "run_failed" /\ sim = 1
          /\ raised \in {"InvalidConfigError", "TrajectoryTooShortError"}) =>
          /\ StoreAsBefore
          /\ saved = <<>>

\* The datasets of the current output size that hold a value.
WrittenNames ==
    {d.name : d \in {x \in write.datasets : x.group = OutGroup /\ x.value # <<>>}}

\* The model file of the current ensemble and output size is there.
ModelSaved == <<sim_names[sim], outsizes[ni], attempt>> \in model_files

\* The model is fitted, on the current split.
Fitted == koop # <<>> /\ koop[1].fitted /\ koop[1].data = generator

\* What has been done of one output size's steps when the cell stands
\* before the step pc names.
StepsDone ==
    /\ pc = "run_fit" =>
          koop # <<>> /\ ~koop[1].fitted /\ ~ModelSaved /\ WrittenNames = {}
    /\ pc = "run_save" => Fitted /\ ~ModelSaved /\ WrittenNames = {}
    /\ pc = "write_k" => Fitted /\ ModelSaved /\ WrittenNames = {}
    /\ pc = "write_mu" => Fitted /\ ModelSaved /\ WrittenNames = {"k"}
    /\ pc = "write_its" => Fitted /\ ModelSaved /\ WrittenNames = {"k", "mu"}
    /\ pc = "write_ck" => Fitted /\ ModelSaved /\ WrittenNames = {"k", "mu", "its"}
    /\ pc = "write_bootstrap" =>
          Fitted /\ ModelSaved /\ WrittenNames = {"k", "mu", "its", "cke", "ckp"}
    /\ pc = "write_full" =>
          /\ Fitted
          /\ ModelSaved
          /\ WrittenNames = {"k", "mu", "its", "cke", "ckp", "bootstrap"}
    /\ pc = "run_del" =>
          /\ Fitted
          /\ ModelSaved
          /\ WrittenNames = {"k", "mu", "its", "cke", "ckp", "bootstrap", "full"}
    /\ pc \in {"run_outsize", "run_ensemble", "run_exit", "run_done"} => koop = <<>>

\* C19: in the training run one split is constructed for each ensemble and
\* its index file persisted before any model is fitted, and that split is
\* used unchanged for every output size; for each (ensemble, output size)
\* the steps are fit, save model, write k, mu, its, cke/ckp, bootstrap,
\* full, and the model is discarded before the next output size starts.
C19_RunOrder ==
    /\ koop # <<>> =>
          /\ Len(saved) = sim
          /\ saved[sim] = [trainIdx |-> generator.trainIdx,
                           testIdx |-> generator.testIdx]
          /\ generator.flatConcatenation = Chain(ensemble_data[sim_names[sim]])
    /\ Len(saved) <= sim
    /\ \A e \in {model[1] : model \in model_files} : SimIndex(e) <= Len(saved)
    /\ StepsDone

\* C19 witness: the second output size of the second ensemble has been
\* written and its model is about to be discarded.
C19_Witness ==
    /\ pc = "run_del"
    /\ sim = 2
    /\ ni = 2
    /\ Len(saved) = 2

(***************************************************************************)
(* Properties of the cache cells and of the utilities as functions.        *)
(***************************************************************************)
\* C15: feature extraction follows existence-check-then-compute: the
\* featurizer is run and its output saved to the cache file only when the
\* file does not exist; when it exists the featurizer is not run and the
\* file is not rewritten; either way the feature matrix used downstream,
\* the input to unflatten, is the content of the cache file.
C15_CacheThenCompute ==
    /\ [](pc = "done" =>
            /\ cache_file # <<>>
            /\ mindist_flat = np_load(cache_file[1])
            /\ notebook = "classic" => mindist = unflatten(mindist_flat, lengths)
            /\ notebook = "vampe" => input_data = unflatten(mindist_flat, lengths))
    /\ [][/\ (pc = "unflatten" /\ cache_file = <<>>) =>
                /\ featurizer_runs' = featurizer_runs + 1
                /\ cache_saves' = cache_saves + 1
                /\ cache_file' = <<np_save(get_output(flatlengths))>>
          /\ (pc # "unflatten" \/ cache_file # <<>>) =>
                UNCHANGED <<cache_file, cache_saves, featurizer_runs>>]_<<pc, cacheVars>>

\* C15 witness: the classical notebook found a cache file that holds other
\* rows than the featurizer would give, and used it without running the
\* featurizer.
C15_Witness ==
    /\ pc = "done"
    /\ notebook = "classic"
    /\ featurizer_runs = 0
    /\ cache_saves = 0
    /\ Len(mindist_flat) >= 2
    /\ mindist_flat # get_output(flatlengths)
    /\ Len(flatlengths) >= 2

====
